---------------------------- MODULE Spec2Model ----------------------------
(***************************************************************************)
(* A model of luscus: the molecular data model of Api (sections, atoms,    *)
(* bonds, transforms), the export pipeline of Api (canvas scaling, image   *)
(* export, video export) and the de-instancing of the scene graph that     *)
(* precedes glTF export.                                                   *)
(*                                                                         *)
(* Three specifications share the module, one per component:               *)
(*   SpecModel   the molecular data model       (src/src/api.js 31-171)    *)
(*   SpecExport  the export pipeline            (src/src/api.js 187-394)   *)
(*   SpecDeinst  deinstantiate                  (src/unnamed/part_000)     *)
(* Each leaves the variables of the other two components untouched.        *)
(*                                                                         *)
(* Numbers: JavaScript numbers are modelled as exact rationals <<n, d>>    *)
(* (d > 0, lowest terms). The view (src/view.js) and the renderer are not  *)
(* part of the sources at hand; redraw and render calls are not modelled.  *)
(***************************************************************************)
EXTENDS Integers, Sequences, FiniteSets, TLC

VARIABLES
    \* ---- molecular data model (Api.sections and the last call's outcome)
    sections,      \* this.sections: sequence of [atoms, bonds]
    ret,           \* the last API call: its name, arguments, return value, console.error
    calls,         \* number of API calls made so far
    \* ---- export pipeline
    canvas,        \* renderer.domElement: [width, height]
    pixelRatio,    \* the renderer's pixel ratio (main.js: window.devicePixelRatio)
    background,    \* scene.background
    currentFrame,  \* this.currentFrame
    stop,          \* the run's stop flag (closure variable of exportVideo)
    video,         \* position of the run: "idle" or "capturing" (a tick is scheduled)
    capturer,      \* the run's CCapture: [state, frames]
    camera,        \* where the camera path function last put the camera
    button,        \* videoExportStartButton: [onclick, innerText]
    progressBar,   \* videoExportProgress: [display, value]
    run,           \* facts of the current run: scale factor, path function, pre-run state
    image,         \* exportImage's position and outcome
    scaleLog,      \* the last two scaleCanvas calls: [f, width, height before the call]
    exports,       \* number of exports and direct scaleCanvas calls started so far
    \* ---- de-instancing
    heap,          \* the scene objects: id -> object record
    materials,     \* the materials: id -> material record
    live,          \* the ids of the live scene's objects; liveRoot is its root
    liveRoot,
    liveHeap0,     \* the live objects and materials as they were before deinstantiate
    result,        \* deinstantiate's return value: 0 before the call, else the clone's root id
    gltf,          \* exportGLTF's position, its arguments, the exporter's input and
                   \* outcome, the files saved and the console.log lines written
    \* ---- the orbiting camera path
    orbit          \* exportOrbitingVideo's arguments and the camera positions its
                   \* path function has returned, by progress

molVars    == <<sections, ret, calls>>
exportVars == <<canvas, pixelRatio, background, currentFrame, stop, video, capturer,
                camera, button, progressBar, run, image, scaleLog, exports>>
deinstVars == <<heap, materials, live, liveRoot, liveHeap0, result, gltf>>
orbitVars  == <<orbit>>
vars       == <<molVars, exportVars, deinstVars, orbitVars>>

-----------------------------------------------------------------------------
(* Exact rational arithmetic for JavaScript numbers.                       *)

Abs(x) == IF x < 0 THEN -x ELSE x

RECURSIVE GCD(_, _)
GCD(a, b) == IF b = 0 THEN a ELSE GCD(b, a % b)

Rat(n, d) ==
    LET sign == IF d < 0 THEN -1 ELSE 1
        g    == GCD(Abs(n), Abs(d))
    IN  <<(sign * n) \div g, (sign * d) \div g>>

RInt(k) == <<k, 1>>

LCM(a, b) == (a \div GCD(a, b)) * b

RAdd(x, y) ==
    LET l == LCM(x[2], y[2])
    IN  Rat(x[1] * (l \div x[2]) + y[1] * (l \div y[2]), l)

RNeg(x) == <<-x[1], x[2]>>

RSub(x, y) == RAdd(x, RNeg(y))

RMul(x, y) ==
    LET g1 == GCD(Abs(x[1]), y[2])
        g2 == GCD(Abs(y[1]), x[2])
    IN  Rat((x[1] \div g1) * (y[1] \div g2), (x[2] \div g2) * (y[2] \div g1))

RDivInt(x, k) == Rat(x[1], x[2] * k)

RLeq(x, y) == RSub(x, y)[1] <= 0

\* THREE.Vector3 with rational components
Vec(x, y, z) == <<RInt(x), RInt(y), RInt(z)>>

VAdd(p, q) == <<RAdd(p[1], q[1]), RAdd(p[2], q[2]), RAdd(p[3], q[3])>>

VSub(p, q) == <<RSub(p[1], q[1]), RSub(p[2], q[2]), RSub(p[3], q[3])>>

VScale(p, r) == <<RMul(p[1], r), RMul(p[2], r), RMul(p[3], r)>>

VDivScalar(p, k) == <<RDivInt(p[1], k), RDivInt(p[2], k), RDivInt(p[3], k)>>

\* Vector3.distanceTo squared (distanceTo is its square root)
DistanceToSquared(p, q) ==
    LET d == VSub(p, q)
    IN  RAdd(RAdd(RMul(d[1], d[1]), RMul(d[2], d[2])), RMul(d[3], d[3]))

-----------------------------------------------------------------------------
(* Molecular data model: Api.addAtom, addBond, createDiamond,              *)
(* transformAtoms (src/src/api.js 31-171).                                 *)
(*                                                                         *)
(* A Section object is identified by its place in this.sections; an atom   *)
(* object by [sec, at]: the section that holds it and its place in that    *)
(* section's atoms array. The atom's own fields (sectionIdx, section) are  *)
(* stored in the atom record, as in the code.                              *)

MaxCalls == 3       \* API calls in one behaviour

\* createDiamond's side
Sides == {1}

\* createDiamond's side where lattices are looked at on their own
DiamondSides == {1, 2}

\* the atoms of a section that a call may name: those at these places
PickPlaces == {1, 2}

\* the lengths of the atoms list given to transformAtoms
ListLengths == 0..2

Undefined == "undefined"

Symbols == {"C", "H"}

Positions == {Vec(0, 0, 0), Vec(2, 0, 0)}

\* the (symbol, position) pairs given to addAtom
AtomInputs == {<<"C", Vec(0, 0, 0)>>, <<"H", Vec(2, 0, 0)>>}

\* an argument left out: a section, a vector, an atom
NoSection == 0

NoVector == <<>>

NoAtom == [sec |-> 0, at |-> 0]

Translations == {NoVector, Vec(1, 0, 0)}

Quaternions == {Undefined, "z90"}

Origins == {NoVector, Vec(0, 1, 0)}

\* the (translation, quaternion, origin) given to transformAtoms: an origin
\* is given only together with a quaternion
TransformInputs ==
    {input \in Translations \X Quaternions \X Origins :
        input[2] # Undefined \/ input[3] = NoVector}

Orders == {1, 2}

EmptyMap == <<>>

\* new Section()
NewSection == [atoms |-> <<>>, bonds |-> <<>>]

\* the atom object a reference denotes
AtomAt(secs, a) == secs[a.sec].atoms[a.at]

\* api.js:97 with the index taken 0-based
NextSectionIdxZeroBased(length) == length

\* api.js:97  sectionIdx: section.atoms.length + 1
NextSectionIdx(length) == length + 1

\* api.js:96-102  the atom object made for a section that holds length atoms
NewAtom(length, symbol, position, attributes, section) ==
    [sectionIdx |-> NextSectionIdx(length),
     symbol     |-> symbol,
     position   |-> position,
     attributes |-> attributes,
     section    |-> section]

\* addAtom: returns the new this.sections and the reference of the new atom
AddAtomTo(secs, symbol, position, attributes, section) ==
    LET secs1  == IF section = NoSection THEN Append(secs, NewSection) ELSE secs
        target == IF section = NoSection THEN Len(secs1) ELSE section
        atom   == NewAtom(Len(secs1[target].atoms), symbol, position, attributes, target)
    IN  [sections |-> [secs1 EXCEPT ![target].atoms = Append(@, atom)],
         atom     |-> [sec |-> target, at |-> Len(secs1[target].atoms) + 1]]

\* api.js:123 with the test dropped
CrossSectionNever(secs, atom1, atom2) == FALSE

\* api.js:123  atom1.section !== atom2.section
CrossSection(secs, atom1, atom2) ==
    AtomAt(secs, atom1).section # AtomAt(secs, atom2).section

\* api.js:128-133  the bond object pushed
NewBond(atom1, atom2, order, automatic) ==
    [atom1 |-> atom1, atom2 |-> atom2, order |-> order, automatic |-> automatic]

\* api.js:123-126 with the return after console.error left out
AddBondToNoReturn(secs, atom1, atom2, order, automatic) ==
    LET owner == AtomAt(secs, atom1).section
    IN  [sections |-> [secs EXCEPT ![owner].bonds =
                          Append(@, NewBond(atom1, atom2, order, automatic))],
         error    |-> CrossSection(secs, atom1, atom2)]

\* addBond: the new this.sections, and whether console.error was called
AddBondTo(secs, atom1, atom2, order, automatic) ==
    IF CrossSection(secs, atom1, atom2)
    THEN [sections |-> secs, error |-> TRUE]
    ELSE LET owner == AtomAt(secs, atom1).section
         IN  [sections |-> [secs EXCEPT ![owner].bonds =
                               Append(@, NewBond(atom1, atom2, order, automatic))],
              error    |-> FALSE]

\* createDiamond: const a = 3.567 (api.js:32), as a/4 = 3567/4000
LatticeQuarter == Rat(3567, 4000)

\* api.js:33-36
unitPoints ==
    << <<0,0,0>>, <<0,2,2>>, <<2,0,2>>, <<2,2,0>>,
       <<3,3,3>>, <<3,1,1>>, <<1,3,1>>, <<1,1,3>> >>

\* api.js:39-41 with the loops running to side inclusive
DiamondPointsInclusive(side) ==
    [n \in 1..(8 * (side + 1) * (side + 1) * (side + 1)) |->
        LET cell == (n - 1) \div 8
            p    == unitPoints[((n - 1) % 8) + 1]
            x    == cell \div ((side + 1) * (side + 1))
            y    == (cell \div (side + 1)) % (side + 1)
            z    == cell % (side + 1)
        IN  <<4 * x + p[1], 4 * y + p[2], 4 * z + p[3]>>]

\* api.js:38-49  points, in the order the loops push them
DiamondPoints(side) ==
    [n \in 1..(8 * side * side * side) |->
        LET cell == (n - 1) \div 8
            p    == unitPoints[((n - 1) % 8) + 1]
            x    == cell \div (side * side)
            y    == (cell \div side) % side
            z    == cell % side
        IN  <<4 * x + p[1], 4 * y + p[2], 4 * z + p[3]>>]

\* api.js:56  p.clone().multiplyScalar(a/4)
DiamondPosition(p) == VScale(Vec(p[1], p[2], p[3]), LatticeQuarter)

\* api.js:53-61  points.map(p => this.addAtom("C", ..., undefined, section, false)):
\* the i-th call finds the i-1 atoms of the calls before it in the new section
AddDiamondAtoms(secs, section, points) ==
    [secs EXCEPT ![section].atoms =
        [i \in 1..Len(points) |->
            NewAtom(i - 1, "C", DiamondPosition(points[i]), EmptyMap, section)]]

\* api.js:68  const distLim = 2
distLim == 2

\* api.js:71  atoms[i].position.distanceTo(atoms[j].position) <= distLim
WithinDistLim(secs, ai, aj) ==
    RLeq(DistanceToSquared(AtomAt(secs, ai).position, AtomAt(secs, aj).position),
         RInt(distLim * distLim))

\* api.js:70 with the inner loop starting at j = i
LoopPairsFromSelf(n) ==
    SelectSeq([k \in 1..(n * n) |-> <<((k - 1) \div n) + 1, ((k - 1) % n) + 1>>],
              LAMBDA pr : pr[1] <= pr[2])

\* api.js:69-70  the pairs (i, j) the double loop visits, in its order:
\* i ascending, and for each i, j ascending from i+1
LoopPairs(n) ==
    SelectSeq([k \in 1..(n * n) |-> <<((k - 1) \div n) + 1, ((k - 1) % n) + 1>>],
              LAMBDA pr : pr[1] < pr[2])

\* api.js:69-75  the double loop: addBond(atoms[i], atoms[j], 1, false, false)
\* for every pair within distLim. addBond moves no atom and changes no
\* atom's section, so each pair's tests see the atoms as they were when the
\* loop began; the bonds are pushed in the order of the loop.
AddDiamondBonds(secs, section, n) ==
    LET ref(k)  == [sec |-> section, at |-> k]
        near    == SelectSeq(LoopPairs(n),
                             LAMBDA pr : WithinDistLim(secs, ref(pr[1]), ref(pr[2])))
        bonded  == SelectSeq(near,
                             LAMBDA pr : ~CrossSection(secs, ref(pr[1]), ref(pr[2])))
    IN  [secs EXCEPT ![section].bonds =
            @ \o [k \in 1..Len(bonded) |->
                    NewBond(ref(bonded[k][1]), ref(bonded[k][2]), 1, FALSE)]]

\* createDiamond(side, bonds): the new this.sections
CreateDiamondIn(secs, side, bonds) ==
    LET points == DiamondPoints(side)
        secs1  == Append(secs, NewSection)
        fresh  == Len(secs1)
        secs2  == AddDiamondAtoms(secs1, fresh, points)
    IN  IF bonds THEN AddDiamondBonds(secs2, fresh, Len(points)) ELSE secs2

\* Vector3.applyQuaternion for the quarter and half turns used as inputs
ApplyQuaternion(p, q) ==
    CASE q = "z90"  -> <<RNeg(p[2]), p[1], p[3]>>
      [] q = "x180" -> <<p[1], RNeg(p[2]), RNeg(p[3])>>

\* api.js:149-151  for (const atom of atoms) atom.position.add(translation)
RECURSIVE TranslateAtoms(_, _, _, _)
TranslateAtoms(secs, atoms, translation, i) ==
    IF i > Len(atoms) THEN secs
    ELSE LET a == atoms[i]
         IN  TranslateAtoms(
                [secs EXCEPT ![a.sec].atoms[a.at].position = VAdd(@, translation)],
                atoms, translation, i + 1)

\* api.js:155-158  origin.add(atom.position) over the atoms
RECURSIVE SumPositions(_, _, _)
SumPositions(secs, atoms, i) ==
    IF i > Len(atoms) THEN Vec(0, 0, 0)
    ELSE VAdd(AtomAt(secs, atoms[i]).position, SumPositions(secs, atoms, i + 1))

\* api.js:154-160  the origin when none is given: the mean of the atoms' positions
Centroid(secs, atoms) == VDivScalar(SumPositions(secs, atoms, 1), Len(atoms))

\* api.js:161-165  sub(origin), applyQuaternion, add(origin)
RECURSIVE RotateAtoms(_, _, _, _, _)
RotateAtoms(secs, atoms, quaternion, origin, i) ==
    IF i > Len(atoms) THEN secs
    ELSE LET a == atoms[i]
         IN  RotateAtoms(
                [secs EXCEPT ![a.sec].atoms[a.at].position =
                    VAdd(ApplyQuaternion(VSub(@, origin), quaternion), origin)],
                atoms, quaternion, origin, i + 1)

\* api.js:154-160 with the default origin taken before the translation is applied
TransformAtomsInOriginFirst(secs, atoms, translation, quaternion, origin) ==
    LET t     == IF translation = NoVector THEN Vec(0, 0, 0) ELSE translation
        secs1 == TranslateAtoms(secs, atoms, t, 1)
    IN  IF quaternion = Undefined \/ Len(atoms) = 0 THEN secs1
        ELSE LET o == IF origin = NoVector THEN Centroid(secs, atoms) ELSE origin
             IN  RotateAtoms(secs1, atoms, quaternion, o, 1)

\* transformAtoms(atoms, translation, quaternion, origin): the new this.sections
TransformAtomsIn(secs, atoms, translation, quaternion, origin) ==
    LET t     == IF translation = NoVector THEN Vec(0, 0, 0) ELSE translation
        secs1 == TranslateAtoms(secs, atoms, t, 1)
    IN  IF quaternion = Undefined \/ Len(atoms) = 0 THEN secs1
        ELSE LET o == IF origin = NoVector THEN Centroid(secs1, atoms) ELSE origin
             IN  RotateAtoms(secs1, atoms, quaternion, o, 1)

\* the atoms a call may name
AtomRefs(secs) ==
    UNION {{[sec |-> s, at |-> k] : k \in PickPlaces \cap (1..Len(secs[s].atoms))} :
           s \in 1..Len(secs)}

AtomLists(secs) ==
    UNION {[1..n -> AtomRefs(secs)] : n \in ListLengths}

NoCall == [op |-> "none", atom1 |-> NoAtom, atom2 |-> NoAtom,
           order |-> 0, automatic |-> FALSE, section |-> NoSection,
           result |-> NoAtom, error |-> FALSE,
           atoms |-> <<>>, translation |-> NoVector, quaternion |-> Undefined,
           origin |-> NoVector]

MolInit ==
    /\ sections = <<>>
    /\ ret = NoCall
    /\ calls = 0

AddAtom ==
    /\ calls < MaxCalls
    /\ \E input \in AtomInputs, section \in {NoSection} \cup (1..Len(sections)) :
          LET r == AddAtomTo(sections, input[1], input[2], EmptyMap, section)
          IN  /\ sections' = r.sections
              /\ ret' = [NoCall EXCEPT !.op = "addAtom", !.section = section,
                                       !.result = r.atom]
    /\ calls' = calls + 1
    /\ UNCHANGED <<exportVars, deinstVars, orbitVars>>

AddBond ==
    /\ calls < MaxCalls
    /\ \E atom1 \in AtomRefs(sections), atom2 \in AtomRefs(sections),
          order \in Orders, automatic \in BOOLEAN :
          LET r == AddBondTo(sections, atom1, atom2, order, automatic)
          IN  /\ sections' = r.sections
              /\ ret' = [NoCall EXCEPT !.op = "addBond", !.atom1 = atom1, !.atom2 = atom2,
                                       !.order = order, !.automatic = automatic,
                                       !.error = r.error]
    /\ calls' = calls + 1
    /\ UNCHANGED <<exportVars, deinstVars, orbitVars>>

CreateDiamondOf(sides) ==
    /\ calls < MaxCalls
    /\ \E side \in sides, bonds \in BOOLEAN :
          /\ sections' = CreateDiamondIn(sections, side, bonds)
          /\ ret' = [NoCall EXCEPT !.op = "createDiamond", !.order = side,
                                   !.automatic = bonds]
    /\ calls' = calls + 1
    /\ UNCHANGED <<exportVars, deinstVars, orbitVars>>

CreateDiamond == CreateDiamondOf(Sides)

\* api.createDiamond(side, bonds) with one or two unit cells a side
CreateDiamondWide == CreateDiamondOf(DiamondSides)

TransformAtoms ==
    /\ calls < MaxCalls
    /\ \E atoms \in AtomLists(sections), input \in TransformInputs :
          /\ sections' = TransformAtomsIn(sections, atoms, input[1], input[2], input[3])
          /\ ret' = [NoCall EXCEPT !.op = "transformAtoms", !.atoms = atoms,
                                   !.translation = input[1],
                                   !.quaternion = input[2], !.origin = input[3]]
    /\ calls' = calls + 1
    /\ UNCHANGED <<exportVars, deinstVars, orbitVars>>

-----------------------------------------------------------------------------
(* Export pipeline: Api.scaleCanvas, exportImage, exportOrbitingVideo,     *)
(* exportVideo and its step callback (src/src/api.js 187-394).             *)
(*                                                                         *)
(* The operators below work on a record e of the pipeline's state, with    *)
(* one field per variable of exportVars. At most one export is in flight.  *)

MaxExports == 2     \* exports and direct scaleCanvas calls in one behaviour

\* api.js:352  const lastFrame = 200
lastFrame == 200

ScaleFactors == {Rat(1, 1), Rat(2, 1), Rat(1, 2)}

\* main.js:27  renderer.setPixelRatio(window.devicePixelRatio)
PixelRatios == {1, 2}

CanvasWidths == {3, 4}

CanvasHeights == {2}

\* scene.background before an export: unset, or a colour the user has set
Backgrounds == {"null", "0x202020"}

PathFunctions == {Undefined, "orbit"}

\* the ticks after which the user may press the stop button
StopTicks == {1, 2, 100, 199, 200}

NoTick == 0 - 1

\* the camera has not been moved along a path
NoProgress == <<>>

\* 1/scaleFactor
RInv(f) == Rat(f[2], f[1])

\* assigning a number to canvas.width or canvas.height (an unsigned long IDL
\* attribute): the fraction is dropped
ToUnsignedLong(x) == x[1] \div x[2]

\* api.js:189-194  canvas.width = width*scalingFactor; canvas.height = ...;
\* renderer.setSize(canvas.width, canvas.height), which sets the canvas to
\* floor(size * pixelRatio)
ScaledSize(c, f, pr) ==
    LET w == ToUnsignedLong(RMul(RInt(c.width), f))
        h == ToUnsignedLong(RMul(RInt(c.height), f))
    IN  [width |-> w * pr, height |-> h * pr]

\* the last two entries of the log of scaleCanvas calls
Logged(log, entry) ==
    IF Len(log) < 2 THEN Append(log, entry) ELSE <<log[2], entry>>

\* scaleCanvas(scalingFactor)
ScaleCanvas(e, f) ==
    [e EXCEPT !.canvas = ScaledSize(e.canvas, f, e.pixelRatio),
              !.scaleLog = Logged(e.scaleLog,
                                  [f |-> f, width |-> e.canvas.width,
                                   height |-> e.canvas.height])]

\* api.js:357 with the budget test off by one
StepFinishedLate(e) == e.currentFrame > lastFrame \/ e.stop

\* api.js:357  this.currentFrame >= lastFrame || stop
StepFinished(e) == e.currentFrame >= lastFrame \/ e.stop

\* api.js:369-374, 383-388  applying the camera path function at a progress value
MoveCamera(e, progress) ==
    IF e.run.path # Undefined
    THEN [e EXCEPT !.camera = [path |-> e.run.path, progress |-> progress]]
    ELSE e

\* no frame submitted
NoShot == [frame |-> NoTick, camera |-> NoProgress, encoder |-> "none"]

\* api.js:339-344  new CCapture({...}): an encoder that holds no frame. Beside
\* the number of frames submitted it records the frame counter, the camera's
\* place on its path and the encoder's own state at the first and at the
\* latest submission, and how often it was started and saved.
NewCapturer == [state |-> "none", frames |-> 0, starts |-> 0, saves |-> 0,
                first |-> NoShot, last |-> NoShot]

\* api.js:376, 390  capturer.capture(this.renderer.domElement)
Capture(e) ==
    LET shot == [frame |-> e.currentFrame, camera |-> e.camera.progress,
                 encoder |-> e.capturer.state]
    IN  [e EXCEPT !.capturer.frames = @ + 1,
                  !.capturer.first = IF e.capturer.frames = 0 THEN shot ELSE @,
                  !.capturer.last = shot]

\* api.js:358-364  the branch of step that ends the run
Finalize(e) ==
    LET e1 == [e EXCEPT !.capturer.state = "saved", !.capturer.saves = @ + 1,
                        !.background = "null"]
        e2 == ScaleCanvas(e1, RInv(e.run.scaleFactor))
    IN  [e2 EXCEPT !.button = [onclick |-> "exportVideo", innerText |-> "Start"],
                   !.progressBar.display = "none",
                   !.video = "idle"]

\* api.js:378 left out: the next tick is never scheduled
AdvanceNoSchedule(e) ==
    LET frame    == e.currentFrame + 1
        progress == Rat(frame, lastFrame)
        e1 == [e EXCEPT !.currentFrame = frame]
        e2 == Capture(MoveCamera(e1, progress))
    IN  [e2 EXCEPT !.progressBar.value = RMul(RInt(100), progress)]

\* api.js:367-368 with the progress computed before the counter is incremented
AdvanceStaleProgress(e) ==
    LET frame    == e.currentFrame + 1
        progress == Rat(e.currentFrame, lastFrame)
        e1 == [e EXCEPT !.currentFrame = frame]
        e2 == Capture(MoveCamera(e1, progress))
    IN  [e2 EXCEPT !.progressBar.value = RMul(RInt(100), progress),
                   !.video = "capturing"]

\* api.js:366-378  the branch of step that captures a frame and schedules the next tick
Advance(e) ==
    LET frame    == e.currentFrame + 1
        progress == Rat(frame, lastFrame)
        e1 == [e EXCEPT !.currentFrame = frame]
        e2 == Capture(MoveCamera(e1, progress))
    IN  [e2 EXCEPT !.progressBar.value = RMul(RInt(100), progress),
                   !.video = "capturing"]

\* api.js:356-380  step
Step(e) == IF StepFinished(e) THEN Finalize(e) ELSE Advance(e)

\* api.js:331 with the stop flag kept from the run before
ExportVideoKeepsStop(e, scaleFactor, cameraPathFunction) ==
    LET e1 == [e EXCEPT !.button = [onclick |-> "stop", innerText |-> "Stop"],
                        !.capturer = [NewCapturer EXCEPT !.state = "started", !.starts = 1],
                        !.run = [scaleFactor |-> scaleFactor,
                                 path |-> cameraPathFunction,
                                 background |-> e.background,
                                 width |-> e.canvas.width,
                                 height |-> e.canvas.height,
                                 stopAt |-> NoTick]]
        e2 == ScaleCanvas(e1, scaleFactor)
        e3 == [e2 EXCEPT !.background = "0xFFFFFF",
                         !.currentFrame = 0,
                         !.progressBar.display = "block"]
        e4 == Capture(MoveCamera(e3, Rat(0, 1)))
    IN  Step(e4)

\* api.js:383-390 with frame 0 submitted before the camera is placed
ExportVideoCapturesFirst(e, scaleFactor, cameraPathFunction) ==
    LET e1 == [e EXCEPT !.stop = FALSE,
                        !.button = [onclick |-> "stop", innerText |-> "Stop"],
                        !.capturer = [NewCapturer EXCEPT !.state = "started", !.starts = 1],
                        !.run = [scaleFactor |-> scaleFactor,
                                 path |-> cameraPathFunction,
                                 background |-> e.background,
                                 width |-> e.canvas.width,
                                 height |-> e.canvas.height,
                                 stopAt |-> NoTick]]
        e2 == ScaleCanvas(e1, scaleFactor)
        e3 == [e2 EXCEPT !.background = "0xFFFFFF",
                         !.currentFrame = 0,
                         !.progressBar.display = "block"]
        e4 == MoveCamera(Capture(e3), Rat(0, 1))
    IN  Step(e4)

\* api.js:393 with the first step left to requestAnimationFrame instead of
\* being called by exportVideo itself
ExportVideoSchedulesStep(e, scaleFactor, cameraPathFunction) ==
    LET e1 == [e EXCEPT !.stop = FALSE,
                        !.button = [onclick |-> "stop", innerText |-> "Stop"],
                        !.capturer = [NewCapturer EXCEPT !.state = "started", !.starts = 1],
                        !.run = [scaleFactor |-> scaleFactor,
                                 path |-> cameraPathFunction,
                                 background |-> e.background,
                                 width |-> e.canvas.width,
                                 height |-> e.canvas.height,
                                 stopAt |-> NoTick]]
        e2 == ScaleCanvas(e1, scaleFactor)
        e3 == [e2 EXCEPT !.background = "0xFFFFFF",
                         !.currentFrame = 0,
                         !.progressBar.display = "block"]
        e4 == Capture(MoveCamera(e3, Rat(0, 1)))
    IN  [e4 EXCEPT !.video = "capturing"]

\* api.js:320-394  exportVideo(format, framerate, scaleFactor, cameraPathFunction),
\* up to and including its own call of step
ExportVideo(e, scaleFactor, cameraPathFunction) ==
    LET e1 == [e EXCEPT !.stop = FALSE,
                        !.button = [onclick |-> "stop", innerText |-> "Stop"],
                        !.capturer = [NewCapturer EXCEPT !.state = "started", !.starts = 1],
                        !.run = [scaleFactor |-> scaleFactor,
                                 path |-> cameraPathFunction,
                                 background |-> e.background,
                                 width |-> e.canvas.width,
                                 height |-> e.canvas.height,
                                 stopAt |-> NoTick]]
        e2 == ScaleCanvas(e1, scaleFactor)
        e3 == [e2 EXCEPT !.background = "0xFFFFFF",
                         !.currentFrame = 0,
                         !.progressBar.display = "block"]
        e4 == Capture(MoveCamera(e3, Rat(0, 1)))
    IN  Step(e4)

\* api.js:239-246  the then-callback: try { saveImage() } catch { notify(...) };
\* this.scaleCanvas(1/scaleFactor). toBlob either throws, or takes the frame and
\* later calls back with the blob, or with null when the frame cannot be encoded.
ImageThen(e, outcome) ==
    LET e1 == IF outcome = "throws"
              THEN [e EXCEPT !.image.notified = TRUE, !.image.failed = TRUE]
              ELSE [e EXCEPT !.image.captures = @ + 1]
        e2 == ScaleCanvas(e1, RInv(e.image.f))
    IN  [e2 EXCEPT !.image.pc = IF outcome = "throws" THEN "idle" ELSE "blob",
                   !.image.blob = outcome,
                   !.image.restored = TRUE]

\* api.js:226-232  toBlob's callback: createObjectURL(blob) and the download;
\* createObjectURL(null) throws inside the callback, outside the try block
BlobCallback(e) ==
    IF e.image.blob = "blob"
    THEN [e EXCEPT !.image.pc = "idle", !.image.downloads = @ + 1]
    ELSE [e EXCEPT !.image.pc = "idle", !.image.failed = TRUE,
                   !.image.uncaught = TRUE]

IdleImage == [pc |-> "idle", n |-> 0, f |-> Undefined, blob |-> "none",
              scaled |-> FALSE, restored |-> FALSE, captures |-> 0,
              notified |-> FALSE, failed |-> FALSE, uncaught |-> FALSE,
              propagated |-> FALSE, downloads |-> 0,
              width |-> 0, height |-> 0]

\* api.js:220-238  exportImage up to the end of the promise's executor
ExportImage(e, scaleFactor) ==
    LET e1 == [e EXCEPT !.image = [IdleImage EXCEPT !.n = e.image.n + 1,
                                                    !.f = scaleFactor,
                                                    !.pc = "then",
                                                    !.scaled = TRUE,
                                                    !.downloads = e.image.downloads,
                                                    !.width = e.canvas.width,
                                                    !.height = e.canvas.height]]
    IN  ScaleCanvas(e1, scaleFactor)

\* the pipeline's state as a record, and back
ExportState ==
    [canvas |-> canvas, pixelRatio |-> pixelRatio, background |-> background,
     currentFrame |-> currentFrame, stop |-> stop, video |-> video,
     capturer |-> capturer, camera |-> camera, button |-> button,
     progressBar |-> progressBar, run |-> run, image |-> image,
     scaleLog |-> scaleLog]

Becomes(e) ==
    /\ canvas' = e.canvas
    /\ pixelRatio' = e.pixelRatio
    /\ background' = e.background
    /\ currentFrame' = e.currentFrame
    /\ stop' = e.stop
    /\ video' = e.video
    /\ capturer' = e.capturer
    /\ camera' = e.camera
    /\ button' = e.button
    /\ progressBar' = e.progressBar
    /\ run' = e.run
    /\ image' = e.image
    /\ scaleLog' = e.scaleLog

\* no export in flight
Idle == video = "idle" /\ image.pc = "idle"

ExportInit ==
    /\ canvas \in [width : CanvasWidths, height : CanvasHeights]
    /\ pixelRatio \in PixelRatios
    /\ background \in Backgrounds
    /\ currentFrame = Undefined
    /\ stop = FALSE
    /\ video = "idle"
    /\ capturer = NewCapturer
    /\ camera = [path |-> Undefined, progress |-> NoProgress]
    /\ button = [onclick |-> "exportOrbitingVideo", innerText |-> "Start"]
    /\ progressBar = [display |-> "none", value |-> Rat(35, 1)]
    /\ run = [scaleFactor |-> Undefined, path |-> Undefined, background |-> Undefined,
              width |-> 0, height |-> 0, stopAt |-> NoTick]
    /\ image = IdleImage
    /\ scaleLog = <<>>
    /\ exports = 0

\* api.scaleCanvas(f) called on its own
CallScaleCanvas ==
    /\ Idle /\ exports < MaxExports
    /\ \E f \in ScaleFactors : Becomes(ScaleCanvas(ExportState, f))
    /\ exports' = exports + 1
    /\ UNCHANGED <<molVars, deinstVars, orbitVars>>

\* api.exportImage(f)
CallExportImage ==
    /\ Idle /\ exports < MaxExports
    /\ \E f \in ScaleFactors : Becomes(ExportImage(ExportState, f))
    /\ exports' = exports + 1
    /\ UNCHANGED <<molVars, deinstVars, orbitVars>>

\* the promise's then-callback, a microtask: it runs before any other task
RunImageThen ==
    /\ image.pc = "then"
    /\ \E outcome \in {"blob", "null", "throws"} : Becomes(ImageThen(ExportState, outcome))
    /\ UNCHANGED <<exports, molVars, deinstVars, orbitVars>>

\* toBlob's callback
RunBlobCallback ==
    /\ image.pc = "blob"
    /\ Becomes(BlobCallback(ExportState))
    /\ UNCHANGED <<exports, molVars, deinstVars, orbitVars>>

\* api.exportVideo(format, framerate, f, path) or api.exportOrbitingVideo(...) called directly
CallExportVideo ==
    /\ Idle /\ exports < MaxExports
    /\ \E f \in ScaleFactors, path \in PathFunctions :
          Becomes(ExportVideo(ExportState, f, path))
    /\ exports' = exports + 1
    /\ UNCHANGED <<molVars, deinstVars, orbitVars>>

\* a click on videoExportStartButton: api.js:278 before the first run,
\* api.js:334-336 during a run, api.js:362 after a run
ClickStart ==
    /\ Idle /\ exports < MaxExports
    /\ button.onclick \in {"exportOrbitingVideo", "exportVideo"}
    /\ \E f \in ScaleFactors :
          Becomes(ExportVideo(ExportState, f,
                              IF button.onclick = "exportOrbitingVideo"
                              THEN "orbit" ELSE Undefined))
    /\ exports' = exports + 1
    /\ UNCHANGED <<molVars, deinstVars, orbitVars>>

ClickStop ==
    /\ button.onclick = "stop"
    /\ currentFrame \in StopTicks
    /\ Becomes([ExportState EXCEPT
                   !.stop = TRUE,
                   !.run.stopAt = IF stop THEN @ ELSE currentFrame])
    /\ UNCHANGED <<exports, molVars, deinstVars, orbitVars>>

\* the callback given to requestAnimationFrame
Tick ==
    /\ video = "capturing"
    /\ Becomes(Step(ExportState))
    /\ UNCHANGED <<exports, molVars, deinstVars, orbitVars>>

-----------------------------------------------------------------------------
(* De-instancing: deinstantiate (src/unnamed/part_000 56-103).             *)
(*                                                                         *)
(* Scene objects live in heap, a sequence of object records indexed by     *)
(* object id; materials in the sequence materials. A new object or         *)
(* material takes the next free id. Geometries are never created or        *)
(* changed and are plain ids. The fields from and instance of an object    *)
(* record only tell which live object (and which of its instances) the     *)
(* object was made from.                                                   *)
(*                                                                         *)
(* A colour is <<r, g, b>> with each channel counted in half steps of the  *)
(* 8-bit scale, so that colours closer than one 8-bit step exist.          *)

MaxInstances == 2    \* instances of the first instanced primitive

\* the numbers of instances of the second instanced primitive
SecondCounts == {0, 1}

ChannelMax == 2 * 255

Colors == {<<0, 0, 0>>, <<1, 0, 0>>, <<2, 0, 0>>}

White == <<ChannelMax, ChannelMax, ChannelMax>>

Scales == {<<0, 0, 0>>, <<1, 1, 1>>, <<0, 1, 1>>}

\* Color.getHex: each channel is scaled to 0..255 and rounded, then packed
GetHex(color) ==
    LET c(k) == (IF k > ChannelMax THEN ChannelMax ELSE k) + 1
    IN  (c(color[1]) \div 2) * 65536 + (c(color[2]) \div 2) * 256 + (c(color[3]) \div 2)

\* part_000:15-20  emptyElem
emptyElem == [position |-> <<0, 0, 0>>, quaternion |-> "identity",
              scale |-> <<0, 0, 0>>, color |-> White]

\* Matrix4.decompose: the scale is the length of the matrix's columns, the
\* first negated when the determinant is negative
Decompose(matrix) ==
    LET sc  == matrix.scale
        neg == (sc[1] * sc[2] * sc[3]) < 0
    IN  [position   |-> matrix.position,
         quaternion |-> matrix.quaternion,
         scale      |-> <<IF neg THEN -Abs(sc[1]) ELSE Abs(sc[1]), Abs(sc[2]), Abs(sc[3])>>]

\* part_000:97 dropping a mesh as soon as one component of its scale is zero
IsEmptyAnyAxis(scale) == scale[1] = 0 \/ scale[2] = 0 \/ scale[3] = 0

\* part_000:97  mesh.scale.equals(emptyElem.scale)
IsEmpty(scale) == scale = emptyElem.scale

NoObject == 0

\* exportGLTF before any call
NoExport ==
    [pc |-> "idle", scene |-> NoObject, binary |-> FALSE, name |-> "",
     input |-> NoObject, outcome |-> "none", files |-> <<>>, log |-> <<>>]

PlainObject(type, parent, children, geometry, material) ==
    [type |-> type, isInstancedMesh |-> FALSE, parent |-> parent, children |-> children,
     geometry |-> geometry, material |-> material, count |-> 0, instances |-> <<>>,
     position |-> <<0, 0, 0>>, quaternion |-> "identity", scale |-> <<1, 1, 1>>,
     from |-> NoObject, instance |-> 0]

\* part_000:62  object.clone(false): a new object of the same type with the
\* object's own fields, no parent and no children
CloneShallow(o, id) ==
    [o EXCEPT !.parent = NoObject, !.children = <<>>, !.from = id, !.instance = 0]

\* part_000:78-82 colouring the primitive's own material instead of a clone
UseBaseMaterial(st, object, color) ==
    LET base == st.heap[object].material
    IN  [st EXCEPT !.materials[base].color = color,
                   !.materialMap = (GetHex(color) :> base) @@ @]

\* part_000:78-82  if (!materialMap.has(hexColor)) { m = object.material.clone();
\* m.color.copy(color); materialMap.set(hexColor, m) }
CacheMaterial(st, object, color) ==
    IF GetHex(color) \in DOMAIN st.materialMap THEN st
    ELSE LET m == [st.materials[st.heap[object].material] EXCEPT
                      !.color = color, !.cloneOf = st.heap[object].material]
         IN  [st EXCEPT !.materials = Append(@, m),
                        !.materialMap = (GetHex(color) :> (Len(st.materials) + 1)) @@ @]

\* part_000:85  materialMap.get(hexColor)
CachedMaterial(st, color) == st.materialMap[GetHex(color)]

\* part_000:74-100  the loop over the instances of an instanced primitive
RECURSIVE AddInstances(_, _, _, _)
AddInstances(st, object, group, i) ==
    LET o == st.heap[object]
    IN  IF i > o.count THEN st
        ELSE LET color == o.instances[i].color
                 st1   == CacheMaterial(st, object, color)
                 d     == Decompose(o.instances[i].matrix)
                 mesh  == [PlainObject("Mesh", NoObject, <<>>, o.geometry,
                                       CachedMaterial(st1, color))
                             EXCEPT !.position = d.position,
                                    !.quaternion = d.quaternion,
                                    !.scale = d.scale,
                                    !.from = object,
                                    !.instance = i]
                 id    == Len(st1.heap) + 1
                 st2   == [st1 EXCEPT !.heap = Append(@, mesh)]
                 st3   == IF ~IsEmpty(mesh.scale)
                          THEN [st2 EXCEPT !.heap[id].parent = group,
                                           !.heap[group].children = Append(@, id)]
                          ELSE st2
             IN  AddInstances(st3, object, group, i + 1)

\* part_000:56-103  deinstantiate(object, materialMap): the new heap, materials
\* and material cache, and the id of the object returned
RECURSIVE Deinstantiate(_, _)
RECURSIVE DeinstantiateChildren(_, _, _, _)
Deinstantiate(st, object) ==
    LET o == st.heap[object]
    IN  IF ~o.isInstancedMesh
        THEN LET clone == Len(st.heap) + 1
                 st1   == [st EXCEPT !.heap = Append(@, CloneShallow(o, object))]
             IN  IF Len(o.children) > 0
                 THEN LET r == DeinstantiateChildren(st1, o.children, 1, <<>>)
                      IN  [st |-> [r.st EXCEPT !.heap[clone].children = r.ids],
                           id |-> clone]
                 ELSE [st |-> st1, id |-> clone]
        ELSE LET group == Len(st.heap) + 1
                 g     == [PlainObject("Group", NoObject, <<>>, 0, 0)
                             EXCEPT !.from = object]
                 st1   == [st EXCEPT !.heap = Append(@, g)]
             IN  [st |-> AddInstances(st1, object, group, 1), id |-> group]

\* part_000:65  object.children.map(c => deinstantiate(c, materialMap))
DeinstantiateChildren(st, children, i, ids) ==
    IF i > Len(children) THEN [st |-> st, ids |-> ids]
    ELSE LET r == Deinstantiate(st, children[i])
         IN  DeinstantiateChildren(r.st, children, i + 1, Append(ids, r.id))

\* main.js:144-152 (drawInstances): an instanced primitive over one geometry
\* and one material, with one matrix and one colour per element
InstancedMesh(parent, geometry, material, elements) ==
    [PlainObject("InstancedMesh", parent, <<>>, geometry, material)
       EXCEPT !.isInstancedMesh = TRUE,
              !.count = Len(elements),
              !.instances = elements]

Elements ==
    [matrix : [position : {<<0, 0, 0>>}, quaternion : {"identity"}, scale : Scales],
     color : Colors]

ElementLists(counts) == UNION {[1..k -> Elements] : k \in counts}

MaterialProps == {"default", "metal"}

\* the live scene: the scene object, a light, one or two instanced
\* primitives (main.js:152, 181), and a group holding a plain mesh
LiveObjects(elems1, two, elems2) ==
    LET prims == IF two THEN <<3, 4>> ELSE <<3>>
        grp   == Len(prims) + 3
    IN  <<PlainObject("Scene", NoObject, <<2>> \o prims \o <<grp>>, 0, 0),
          PlainObject("HemisphereLight", 1, <<>>, 0, 0),
          InstancedMesh(1, 1, 1, elems1)>>
        \o (IF two THEN <<InstancedMesh(1, 2, 2, elems2)>> ELSE <<>>)
        \o <<PlainObject("Group", 1, <<grp + 1>>, 0, 0),
             PlainObject("Mesh", grp, <<>>, 3, 3)>>

LiveMaterials(props2) ==
    <<[type |-> "MeshStandardMaterial", props |-> "default", color |-> White, cloneOf |-> 0],
      [type |-> "MeshStandardMaterial", props |-> props2, color |-> White, cloneOf |-> 0],
      [type |-> "MeshBasicMaterial", props |-> "default", color |-> <<0, 0, 0>>, cloneOf |-> 0]>>

DeinstInit ==
    /\ \E elems1 \in ElementLists(0..MaxInstances), two \in BOOLEAN,
          elems2 \in ElementLists(SecondCounts), props2 \in MaterialProps :
          /\ two \/ (Len(elems2) = 0 /\ props2 = "default")
          /\ heap = LiveObjects(elems1, two, elems2)
          /\ materials = LiveMaterials(props2)
    /\ live = DOMAIN heap
    /\ liveRoot = 1
    /\ liveHeap0 = [heap |-> heap, materials |-> materials]
    /\ result = 0
    /\ gltf = NoExport

\* deinstantiate(object) for the scene (exportGLTF, part_000:31) or for one
\* of its objects
CallDeinstantiate ==
    /\ result = 0
    /\ \E object \in live :
          LET r == Deinstantiate([heap |-> heap, materials |-> materials,
                                  materialMap |-> <<>>], object)
          IN  /\ heap' = r.st.heap
              /\ materials' = r.st.materials
              /\ result' = r.id
              /\ liveRoot' = object
    /\ UNCHANGED <<live, liveHeap0, gltf, molVars, exportVars, orbitVars>>

\* the file names given to exportGLTF
Names == {"scene", "diamond"}

\* what GLTFExporter.parse hands to its callbacks: with options.binary the
\* result is an ArrayBuffer, without it a plain object; either way it may
\* fail instead
ParseOutcomes(binary) ==
    IF binary THEN {"ArrayBuffer", "error"} ELSE {"object", "error"}

\* part_000:108-112  save(blob, filename): one click on the download link
Save(g, blob, filename) ==
    [g EXCEPT !.files = Append(@, [filename |-> filename, blob |-> blob])]

\* part_000:114-116  saveString(text, filename)
SaveString(g, text, filename) ==
    Save(g, [type |-> "text/plain", parts |-> text], filename)

\* part_000:118-120  saveArrayBuffer(buffer, filename)
SaveArrayBuffer(g, buffer, filename) ==
    Save(g, [type |-> "application/octet-stream", parts |-> buffer], filename)

\* JSON.stringify(value, null, 2)
Stringify(value, indent) == [text |-> "JSON", of |-> value, indent |-> indent]

\* part_000:35-42 with every result saved as text
OnResultAlwaysText(g, res) ==
    SaveString(g, Stringify(res, 2), g.name \o ".gltf")

\* part_000:35-42  the success callback given to exporter.parse
OnResult(g, res) ==
    IF res.type = "ArrayBuffer"
    THEN SaveArrayBuffer(g, res, g.name \o ".glb")
    ELSE SaveString(g, Stringify(res, 2), g.name \o ".gltf")

\* part_000:43-45  the error callback given to exporter.parse
OnError(g, error) ==
    [g EXCEPT !.log = Append(@, <<"An error happened during parsing", error>>)]

\* api.js:212-214 and part_000:22-34: exportGLTF(scene, binary, name) up to
\* its return: the scene is de-instanced and the clone is handed to
\* exporter.parse with the two callbacks and {binary}
CallExportGLTF ==
    /\ gltf.pc = "idle"
    /\ result = 0
    /\ \E scene \in live, binary \in BOOLEAN, name \in Names :
          LET r == Deinstantiate([heap |-> heap, materials |-> materials,
                                  materialMap |-> <<>>], scene)
          IN  /\ heap' = r.st.heap
              /\ materials' = r.st.materials
              /\ result' = r.id
              /\ liveRoot' = scene
              /\ gltf' = [gltf EXCEPT !.pc = "parsing", !.scene = scene,
                                      !.binary = binary, !.name = name,
                                      !.input = r.id]
    /\ UNCHANGED <<live, liveHeap0, molVars, exportVars, orbitVars>>

\* the exporter finishes and calls the success callback
ParseSucceeds ==
    /\ gltf.pc = "parsing"
    /\ \E type \in ParseOutcomes(gltf.binary) \ {"error"} :
          gltf' = [OnResult(gltf, [type |-> type, encodes |-> gltf.input])
                      EXCEPT !.pc = "done", !.outcome = type]
    /\ UNCHANGED <<heap, materials, live, liveRoot, liveHeap0, result, molVars, exportVars, orbitVars>>

\* the exporter fails and calls the error callback
ParseFails ==
    /\ gltf.pc = "parsing"
    /\ "error" \in ParseOutcomes(gltf.binary)
    /\ gltf' = [OnError(gltf, "error") EXCEPT !.pc = "done", !.outcome = "error"]
    /\ UNCHANGED <<heap, materials, live, liveRoot, liveHeap0, result, molVars, exportVars, orbitVars>>

-----------------------------------------------------------------------------
(* The orbiting camera path: the cameraPathFunction that                   *)
(* exportOrbitingVideo builds (src/src/api.js 296-307).                    *)
(*                                                                         *)
(* The path function evaluates Math.cos and Math.sin at                    *)
(* progress * nOrbits * 2 * Math.PI. Math.PI is the double nearest to pi   *)
(* and lies below it: pi = Math.PI + PiGap, PiGap about 1.2246e-16. For a  *)
(* progress with m = progress * nOrbits * 2 a multiple of 1/2 (at most 5)  *)
(* the product m * Math.PI is exact in double arithmetic, so the argument  *)
(* is m * pi - m * PiGap and the value returned is the sine or cosine of   *)
(* that number, rounded: 0, 1 or -1 where the function is flat, and plus   *)
(* or minus m * PiGap where it crosses zero. A number of this part is      *)
(* [exact, gap]: the value exact + gap * PiGap, both rational. A sum of an *)
(* exact term and a gap term is exact in doubles when the exact term is 0, *)
(* which is why the targets below lie on the y axis.                       *)

Number(exact, gap) == [exact |-> exact, gap |-> gap]

\* x * y for a number x without a gap term
NumMul(x, y) == Number(RMul(x, y.exact), RMul(x, y.gap))

\* x + y for a number x without a gap term
NumAdd(x, y) == Number(RAdd(x, y.exact), y.gap)

\* the number of quarter turns in m * Math.PI, m a multiple of 1/2
QuarterTurns(m) == RMul(m, RInt(2))[1]

\* Math.cos(m * Math.PI)
MathCos(m) ==
    CASE QuarterTurns(m) % 4 = 0 -> Number(RInt(1), RInt(0))
      [] QuarterTurns(m) % 4 = 1 -> Number(RInt(0), m)
      [] QuarterTurns(m) % 4 = 2 -> Number(RInt(-1), RInt(0))
      [] QuarterTurns(m) % 4 = 3 -> Number(RInt(0), RNeg(m))

\* Math.sin(m * Math.PI)
MathSin(m) ==
    CASE QuarterTurns(m) % 4 = 0 -> Number(RInt(0), RNeg(m))
      [] QuarterTurns(m) % 4 = 1 -> Number(RInt(1), RInt(0))
      [] QuarterTurns(m) % 4 = 2 -> Number(RInt(0), m)
      [] QuarterTurns(m) % 4 = 3 -> Number(RInt(-1), RInt(0))

\* the arguments of exportOrbitingVideo that the path function uses
Distances == {RInt(0), RInt(1), RInt(10)}
Heights == {RInt(5)}
OrbitCounts == {1, 2}
Targets == {Vec(0, 0, 0), Vec(0, 1, 0)}

\* the progress values at which the path function is evaluated: the quarters
\* of the unit interval (frames 0, 50, 100, 150 and 200 of a run)
PathProgress == {Rat(k, 4) : k \in 0..4}

\* api.js:297-304  cameraPathFunction(progress): the position returned
\* (the target returned is the target given)
CameraPathFunction(o, progress) ==
    LET m == RMul(RMul(progress, RInt(o.nOrbits)), RInt(2))
    IN  <<NumAdd(o.target[1], NumMul(o.distance, MathCos(m))),
          Number(o.height, RInt(0)),
          NumAdd(o.target[3], NumMul(o.distance, MathSin(m)))>>

\* exportOrbitingVideo(format, framerate, scaleFactor, distance, height,
\* nOrbits, target) has built its path function
OrbitInit ==
    \E distance \in Distances, height \in Heights, nOrbits \in OrbitCounts,
       target \in Targets :
        orbit = [distance |-> distance, height |-> height, nOrbits |-> nOrbits,
                 target |-> target, seen |-> {}]

\* no path function has been built
OrbitOff ==
    orbit = [distance |-> RInt(10), height |-> RInt(5), nOrbits |-> 1,
             target |-> Vec(0, 0, 0), seen |-> {}]

\* the path function is called with a progress it has not been called with
CallCameraPath ==
    /\ \E progress \in PathProgress :
          /\ \A s \in orbit.seen : s.progress # progress
          /\ orbit' = [orbit EXCEPT !.seen =
                          @ \cup {[progress |-> progress,
                                   position |-> CameraPathFunction(orbit, progress)]}]
    /\ UNCHANGED <<molVars, exportVars, deinstVars>>

-----------------------------------------------------------------------------
(* The specifications.                                                     *)

MolNext == AddAtom \/ AddBond \/ CreateDiamond \/ TransformAtoms

ExportNext ==
    \/ CallScaleCanvas
    \/ CallExportImage
    \/ RunImageThen
    \/ RunBlobCallback
    \/ CallExportVideo
    \/ ClickStart
    \/ ClickStop
    \/ Tick

\* a component that a specification leaves alone
MolOff == sections = <<>> /\ ret = NoCall /\ calls = 0

ExportOff ==
    /\ canvas = [width |-> 0, height |-> 0]
    /\ pixelRatio = 1
    /\ background = "null"
    /\ currentFrame = Undefined
    /\ stop = FALSE
    /\ video = "idle"
    /\ capturer = NewCapturer
    /\ camera = [path |-> Undefined, progress |-> NoProgress]
    /\ button = [onclick |-> "exportOrbitingVideo", innerText |-> "Start"]
    /\ progressBar = [display |-> "none", value |-> Rat(35, 1)]
    /\ run = [scaleFactor |-> Undefined, path |-> Undefined, background |-> Undefined,
              width |-> 0, height |-> 0, stopAt |-> NoTick]
    /\ image = IdleImage
    /\ scaleLog = <<>>
    /\ exports = 0

DeinstOff ==
    /\ heap = <<>>
    /\ materials = <<>>
    /\ live = {}
    /\ liveRoot = 0
    /\ liveHeap0 = [heap |-> <<>>, materials |-> <<>>]
    /\ result = 0
    /\ gltf = NoExport

DeinstNext == CallDeinstantiate

GLTFNext == CallExportGLTF \/ ParseSucceeds \/ ParseFails

OrbitNext == CallCameraPath

InitModel == MolInit /\ ExportOff /\ DeinstOff /\ OrbitOff

InitExport == ExportInit /\ MolOff /\ DeinstOff /\ OrbitOff

InitDeinst == DeinstInit /\ MolOff /\ ExportOff /\ OrbitOff

SpecModel == InitModel /\ [][MolNext]_vars

SpecExport == InitExport /\ [][ExportNext]_vars

SpecDeinst == InitDeinst /\ [][DeinstNext]_vars

SpecGLTF == InitDeinst /\ [][GLTFNext]_vars

InitOrbit == OrbitInit /\ MolOff /\ ExportOff /\ DeinstOff

SpecOrbit == InitOrbit /\ [][OrbitNext]_vars

\* createDiamond on its own, with lattices of one and of two unit cells a
\* side, called when this.sections is empty or holds a section made by
\* addAtom("H", (2, 0, 0))
InitDiamond ==
    /\ sections \in {<<>>,
                     AddAtomTo(<<>>, "H", Vec(2, 0, 0), EmptyMap, NoSection).sections}
    /\ ret = NoCall
    /\ calls = 0
    /\ ExportOff
    /\ DeinstOff
    /\ OrbitOff

DiamondNext == CreateDiamondWide

SpecDiamond == InitDiamond /\ [][DiamondNext]_vars

\* Weak fairness of Tick, WF_vars(Tick), written out: a Tick step is possible
\* exactly when a run is capturing, and it always changes the state (the
\* frame counter or the encoder's state)
TickFairness == []<>(video # "capturing") \/ []<><<Tick>>_vars

\* The export pipeline when the browser keeps delivering the animation
\* frames requested through requestAnimationFrame (api.js:378)
\* (one canvas size and pixel ratio: neither affects when a run ends)
InitExportFair ==
    /\ ExportInit /\ MolOff /\ DeinstOff /\ OrbitOff
    /\ canvas = [width |-> 4, height |-> 2]
    /\ pixelRatio = 1

SpecExportFair == InitExportFair /\ [][ExportNext]_vars /\ TickFairness

-----------------------------------------------------------------------------
(* Properties of the molecular data model (SpecModel).                     *)

\* the step is a call of addBond
IsAddBondStep == calls' = calls + 1 /\ ret'.op = "addBond"

\* C5: addBond(a1, a2, order, automatic) with a1.section !== a2.section leaves
\* every section's bond list (and everything else in this.sections) as it
\* was, returns no bond and reports the error on the console; with
\* a1.section === a2.section it appends exactly one bond, made of the
\* arguments, to that section's bond list and changes nothing else.
C5_AddBondCrossSection ==
    [][IsAddBondStep =>
        LET a1 == ret'.atom1
            a2 == ret'.atom2
            s1 == sections[a1.sec].atoms[a1.at].section
            s2 == sections[a2.sec].atoms[a2.at].section
        IN  IF s1 # s2
            THEN /\ sections' = sections
                 /\ ret'.error
                 /\ ret'.result = NoAtom
            ELSE /\ ~ret'.error
                 /\ sections' =
                      [sections EXCEPT ![s1].bonds =
                         Append(@, [atom1 |-> a1, atom2 |-> a2, order |-> ret'.order,
                                    automatic |-> ret'.automatic])]
    ]_vars

\* C5 witness: addBond has just been called with atoms of two sections
C5_Witness ==
    /\ ret.op = "addBond"
    /\ ret.error
    /\ ret.atom1.sec # ret.atom2.sec
    /\ \A s \in 1..Len(sections) : sections[s].bonds = <<>>

\* C6: every bond stored in a section's bond list joins two atoms whose
\* section is that section.
C6_BondsWithinSection ==
    \A s \in 1..Len(sections) :
        \A k \in 1..Len(sections[s].bonds) :
            LET b == sections[s].bonds[k]
            IN  /\ sections[b.atom1.sec].atoms[b.atom1.at].section = s
                /\ sections[b.atom2.sec].atoms[b.atom2.at].section = s

\* C6 witness: bonds are stored while atoms of another section exist and
\* the last call was a rejected or accepted addBond
C6_Witness ==
    /\ Len(sections) >= 2
    /\ \E s \in 1..Len(sections) : Len(sections[s].bonds) > 0
    /\ \E s \in 1..Len(sections) : Len(sections[s].bonds) = 0 /\ Len(sections[s].atoms) > 0
    /\ ret.op = "addBond"

IndicesInOrder ==
    \A s \in 1..Len(sections) :
        \A k \in 1..Len(sections[s].atoms) : sections[s].atoms[k].sectionIdx = k

IndicesKept ==
    \A s \in 1..Len(sections) :
        \A k \in 1..Len(sections[s].atoms) :
            /\ s <= Len(sections')
            /\ k <= Len(sections'[s].atoms)
            /\ sections'[s].atoms[k].sectionIdx = sections[s].atoms[k].sectionIdx

\* C7: within every section the atom indices are 1-based, pairwise distinct
\* and in insertion order (the i-th atom added has index i), and no step
\* changes the index of an atom that exists.
C7_SectionIdx == []IndicesInOrder /\ [][IndicesKept]_vars

\* C7 witness: a section filled by two addAtom calls beside a section filled
\* by createDiamond
C7_Witness ==
    /\ \E s \in 1..Len(sections) :
          Len(sections[s].atoms) = 2 /\ sections[s].atoms[2].symbol \in Symbols
    /\ \E s \in 1..Len(sections) : Len(sections[s].atoms) >= 8

-----------------------------------------------------------------------------
(* Properties of the export pipeline (SpecExport).                         *)

\* the step ends a video export run (api.js:358-364)
IsFinalizeStep == capturer.state = "started" /\ capturer'.state = "saved"

\* C1: during a video export run the encoder has received frame 0 and one
\* frame per tick; a run that is never stopped is finalized after 200 ticks
\* with exactly 201 frames submitted, a run stopped at tick k is finalized
\* with exactly k + 1 frames submitted, and the step that finalizes submits
\* no frame.
C1_FrameCount ==
    /\ [](video = "capturing" =>
            /\ capturer.state = "started"
            /\ capturer.frames = currentFrame + 1
            /\ currentFrame <= lastFrame)
    /\ [](capturer.state = "saved" =>
            capturer.frames = IF stop THEN run.stopAt + 1 ELSE lastFrame + 1)
    /\ [][IsFinalizeStep =>
            /\ capturer'.frames = capturer.frames
            /\ (stop \/ currentFrame = lastFrame)]_vars

\* C1 witness: a run stopped at tick 100 has been finalized with 101 frames
C1_Witness ==
    /\ capturer.state = "saved"
    /\ stop
    /\ run.stopAt = 100
    /\ capturer.frames = 101

\* C2: when scaleCanvas(1/f) immediately follows scaleCanvas(f), the canvas
\* has the width and height it had before the first of the two calls.
C2_ScaleRoundTrip ==
    (Len(scaleLog) = 2 /\ scaleLog[2].f = RInv(scaleLog[1].f)) =>
        /\ canvas.width = scaleLog[1].width
        /\ canvas.height = scaleLog[1].height

\* C3: the step that finalizes a video export run leaves scene.background
\* and the canvas's width and height as they were immediately before the
\* run started.
C3_FinalizeRestores ==
    [][IsFinalizeStep =>
        /\ background' = run.background
        /\ canvas'.width = run.width
        /\ canvas'.height = run.height]_vars

\* C4: once an exportImage call and its callbacks are over, the canvas has
\* been scaled by f and scaled back by 1/f, and if capturing or encoding the
\* frame failed the user has been notified and no exception has left the
\* export.
C4_ImageRestoresAndNotifies ==
    (image.n > 0 /\ image.pc = "idle") =>
        /\ image.scaled
        /\ image.restored
        /\ image.failed => (image.notified /\ ~image.uncaught /\ ~image.propagated)

-----------------------------------------------------------------------------
(* Properties of de-instancing (SpecDeinst).                               *)

\* the objects and materials made by the call
NewObjects == DOMAIN heap \ live

NewMaterials == (Len(liveHeap0.materials) + 1)..Len(materials)

\* the instanced primitives the call has de-instanced
Deinstanced ==
    {p \in live : /\ heap[p].isInstancedMesh
                  /\ \E g \in NewObjects : heap[g].type = "Group" /\ heap[g].from = p}

\* the group returned for the instanced primitive p
GroupOf(p) == CHOOSE g \in NewObjects : heap[g].type = "Group" /\ heap[g].from = p

\* the instances of p that carry the zero-vector sentinel scale
Sentinels(p) ==
    {i \in 1..heap[p].count : heap[p].instances[i].matrix.scale = <<0, 0, 0>>}

\* the materials referenced by the children of a group
MaterialsOf(g) == {heap[heap[g].children[j]].material : j \in 1..Len(heap[g].children)}

DistinctColors(p) ==
    \A i, j \in 1..heap[p].count :
        i # j => heap[p].instances[i].color # heap[p].instances[j].color

OneColor(p) ==
    \A i, j \in 1..heap[p].count :
        heap[p].instances[i].color = heap[p].instances[j].color

\* C8: for a de-instanced primitive with N >= 1 instances, none of them a
\* sentinel: if the instance colours are pairwise distinct the group holds
\* N meshes that reference N distinct materials; if all instances have one
\* colour the group holds N meshes that reference 1 material.
C8_MaterialPerColor ==
    \A p \in Deinstanced :
        (heap[p].count >= 1 /\ Sentinels(p) = {}) =>
            /\ DistinctColors(p) =>
                  /\ Len(heap[GroupOf(p)].children) = heap[p].count
                  /\ Cardinality(MaterialsOf(GroupOf(p))) = heap[p].count
            /\ OneColor(p) =>
                  /\ Len(heap[GroupOf(p)].children) = heap[p].count
                  /\ Cardinality(MaterialsOf(GroupOf(p))) = 1

\* C9: the group made for a de-instanced primitive with N instances, k of
\* them sentinels, has N - k children; the children are the meshes of the
\* instances that are no sentinels, one each, in the order of the instance
\* index, each with its instance's transform.
C9_SentinelsDropped ==
    \A p \in Deinstanced :
        LET kids == heap[GroupOf(p)].children
            instanceOf(j) == heap[kids[j]].instance
        IN  /\ Len(kids) = heap[p].count - Cardinality(Sentinels(p))
            /\ \A j \in 1..Len(kids) :
                  /\ heap[kids[j]].type = "Mesh"
                  /\ heap[kids[j]].from = p
                  /\ instanceOf(j) \in (1..heap[p].count) \ Sentinels(p)
                  /\ heap[kids[j]].position = heap[p].instances[instanceOf(j)].matrix.position
                  /\ heap[kids[j]].scale = heap[p].instances[instanceOf(j)].matrix.scale
            /\ \A j, k \in 1..Len(kids) : j < k => instanceOf(j) < instanceOf(k)

\* C9 witness: a primitive with two instances, the first a sentinel and the
\* second scaled to zero along one axis only, has been de-instanced into a
\* group with one child
C9_Witness ==
    \E p \in Deinstanced :
        /\ heap[p].count = 2
        /\ Sentinels(p) = {1}
        /\ heap[p].instances[2].matrix.scale = <<0, 1, 1>>
        /\ Len(heap[GroupOf(p)].children) = 1

\* C10: after deinstantiate has returned, every live object (its children,
\* parent, transform, geometry, material, count, instance matrices and
\* instance colours) and every live material is as it was before the call;
\* every new object that has a geometry has the geometry of the live object
\* it was made from; a new object made from a plain live object has that
\* object's material; and every new material is a clone of the base
\* material of a de-instanced primitive, coloured as one of its instances.
C10_LiveSceneUntouched ==
    result # NoObject =>
        /\ \A id \in live : heap[id] = liveHeap0.heap[id]
        /\ \A m \in 1..Len(liveHeap0.materials) : materials[m] = liveHeap0.materials[m]
        /\ \A id \in NewObjects :
              /\ heap[id].geometry # 0 => heap[id].geometry = heap[heap[id].from].geometry
              /\ ~heap[heap[id].from].isInstancedMesh =>
                    heap[id].material = heap[heap[id].from].material
        /\ \A m \in NewMaterials :
              \E p \in Deinstanced :
                  /\ materials[m].cloneOf = heap[p].material
                  /\ \E i \in 1..heap[p].count : materials[m].color = heap[p].instances[i].color

\* C10 witness: the whole scene, with two instanced primitives, has been
\* de-instanced and new meshes and new materials exist
C10_Witness ==
    /\ result # NoObject
    /\ liveRoot = 1
    /\ Cardinality(Deinstanced) = 2
    /\ NewMaterials # {}
    /\ \E id \in NewObjects : heap[id].type = "Mesh" /\ heap[id].instance > 0

-----------------------------------------------------------------------------
(* Further properties of the export pipeline (SpecExport).                 *)

\* the step is a call of exportVideo
IsStartStep ==
    /\ exports' = exports + 1
    /\ <<capturer, run, video>>' # <<capturer, run, video>>

\* C11: a call of exportVideo made after a run has finalized starts a run
\* of its own: when the call returns the stop flag is clear, frame 0 and the
\* frame of tick 1 have been submitted to a fresh encoder, the frame counter
\* is 1 and the run is capturing; a running run has its stop flag set only
\* by a stop request made during that run.
C11_FreshRun ==
    /\ [][(IsStartStep /\ capturer.state = "saved") =>
            /\ ~stop'
            /\ run'.stopAt = NoTick
            /\ currentFrame' = 1
            /\ capturer'.state = "started"
            /\ capturer'.starts = 1
            /\ capturer'.saves = 0
            /\ capturer'.frames = 2
            /\ capturer'.first.frame = 0
            /\ capturer'.last.frame = 1
            /\ video' = "capturing"]_vars
    /\ [](capturer.state = "started" => (stop <=> run.stopAt # NoTick))

\* C11 witness: the first run, orbiting, was stopped at tick 100 (where the
\* camera still stands); the second run, without camera path, is past tick
\* 100 and capturing
C11_Witness ==
    /\ exports = 2
    /\ video = "capturing"
    /\ ~stop
    /\ camera.path = "orbit"
    /\ camera.progress = Rat(1, 2)
    /\ run.path = Undefined
    /\ currentFrame = 199

\* C12: when animation frames keep being delivered, every video export run
\* that has started is eventually finalized (encoder stopped and saved), and
\* a step finalizes a run only when the frame counter has reached lastFrame
\* or the run's stop flag is set.
C12_RunsFinalize ==
    /\ (capturer.state = "started") ~> (capturer.state = "saved")
    /\ [][IsFinalizeStep => (currentFrame >= lastFrame \/ stop)]_vars

\* C12 witness: a run that was never stopped has been finalized at the
\* frame budget
C12_Witness ==
    /\ capturer.state = "saved"
    /\ ~stop
    /\ currentFrame = lastFrame
    /\ progressBar.display = "none"

\* the step is a tick of a running video export that submits a frame
IsCaptureStep ==
    /\ capturer.state = "started"
    /\ capturer'.state = "started"
    /\ capturer'.frames # capturer.frames

\* C13: in a video export run the first frame submitted is frame 0, taken
\* with the camera at progress 0 of its path; the n-th later submission is
\* frame n, taken at progress n / lastFrame, which lies in (0, 1]; a tick
\* that submits a frame submits exactly one, of the frame after the one
\* submitted last and at a strictly greater progress, and shows that
\* progress (in percent) on the progress bar.
C13_ProgressIncreases ==
    /\ [](capturer.state # "none" =>
            /\ capturer.first.frame = 0
            /\ run.path # Undefined => capturer.first.camera = Rat(0, 1)
            /\ capturer.last.frame = capturer.frames - 1
            /\ capturer.last.frame \in 1..lastFrame
            /\ run.path # Undefined =>
                  /\ capturer.last.camera = Rat(capturer.last.frame, lastFrame)
                  /\ ~RLeq(capturer.last.camera, Rat(0, 1))
                  /\ RLeq(capturer.last.camera, Rat(1, 1)))
    /\ [][IsCaptureStep =>
            /\ capturer'.frames = capturer.frames + 1
            /\ capturer'.last.frame = capturer.last.frame + 1
            /\ capturer'.first = capturer.first
            /\ progressBar'.value = Rat(100 * capturer'.last.frame, lastFrame)
            /\ run.path # Undefined =>
                  ~RLeq(capturer'.last.camera, capturer.last.camera)]_vars

\* C13 witness: an orbiting run has submitted frame 0 at progress 0 and,
\* 200 ticks later, frame 200 at progress 1
C13_Witness ==
    /\ capturer.state = "started"
    /\ run.path = "orbit"
    /\ capturer.frames = lastFrame + 1
    /\ capturer.first.frame = 0
    /\ capturer.first.camera = Rat(0, 1)
    /\ capturer.last.frame = lastFrame
    /\ capturer.last.camera = Rat(1, 1)

\* C14: in every video export run the encoder has been started exactly once
\* and is running when it takes its first and its latest frame; with a
\* camera path, frame 0 is taken with the camera at progress 0 of the path;
\* the encoder is saved exactly once, by the step that finalizes the run,
\* and a saved encoder takes no further frame.
C14_EncoderLifecycle ==
    /\ [](capturer.state # "none" =>
            /\ capturer.starts = 1
            /\ capturer.frames >= 2
            /\ capturer.first.encoder = "started"
            /\ capturer.last.encoder = "started"
            /\ capturer.first.frame = 0
            /\ run.path # Undefined => capturer.first.camera = Rat(0, 1)
            /\ capturer.saves = IF capturer.state = "saved" THEN 1 ELSE 0)
    /\ [][IsFinalizeStep => capturer'.saves = capturer.saves + 1]_vars
    /\ [][(capturer.state = "saved" /\ capturer'.state = "saved") =>
            capturer' = capturer]_vars

\* C14 witness: an orbiting run has been finalized without a stop request;
\* its encoder was started once, took 201 frames, the first at progress 0,
\* and was saved once
C14_Witness ==
    /\ capturer.state = "saved"
    /\ run.path = "orbit"
    /\ ~stop
    /\ capturer.starts = 1
    /\ capturer.saves = 1
    /\ capturer.frames = lastFrame + 1
    /\ capturer.first.camera = Rat(0, 1)

-----------------------------------------------------------------------------
(* Properties of createDiamond and transformAtoms (SpecDiamond, SpecModel).*)

\* the step is a call of createDiamond
IsCreateDiamondStep == calls' = calls + 1 /\ ret'.op = "createDiamond"

\* the positions of a lattice of side unit cells: the 8 basis points in every
\* cell of the grid, scaled by a quarter of the lattice constant
LatticePositions(side) ==
    {VScale(Vec(4 * x + unitPoints[b][1], 4 * y + unitPoints[b][2],
                4 * z + unitPoints[b][3]), LatticeQuarter) :
        x \in 0..(side - 1), y \in 0..(side - 1), z \in 0..(side - 1), b \in 1..8}

\* C15: createDiamond(S, bonds) appends exactly one section to
\* this.sections and leaves the sections before it as they were; the new
\* section holds exactly 8 * S^3 atoms of carbon, the k-th with index k and
\* that section as its section, at pairwise distinct positions which are
\* exactly the positions of the lattice of side S.
C15_DiamondAtoms ==
    [][IsCreateDiamondStep =>
        LET S     == ret'.order
            fresh == Len(sections) + 1
            atoms == sections'[fresh].atoms
        IN  /\ Len(sections') = fresh
            /\ \A s \in 1..Len(sections) : sections'[s] = sections[s]
            /\ Len(atoms) = 8 * S * S * S
            /\ \A k \in 1..Len(atoms) :
                  /\ atoms[k].sectionIdx = k
                  /\ atoms[k].section = fresh
                  /\ atoms[k].symbol = "C"
            /\ \A j, k \in 1..Len(atoms) : j # k => atoms[j].position # atoms[k].position
            /\ {atoms[k].position : k \in 1..Len(atoms)} = LatticePositions(S)
    ]_vars

\* C15 witness: createDiamond(2, ...) has just added a section of 64 atoms
\* behind a section that existed
C15_Witness ==
    /\ ret.op = "createDiamond"
    /\ ret.order = 2
    /\ Len(sections) >= 2
    /\ Len(sections[Len(sections)].atoms) = 64

\* C16: createDiamond(S, true) gives the new section exactly one bond for
\* every unordered pair of distinct atoms of the section that lie within
\* distLim of each other, and no other bond: every bond joins two distinct
\* atoms of the section, no pair is bonded twice, and the set of bonded
\* pairs is the set of pairs within distLim, a relation that does not
\* depend on the order of the atoms. createDiamond(S, false) gives no bond.
C16_DiamondBonds ==
    [][IsCreateDiamondStep =>
        LET fresh  == Len(sections) + 1
            atoms  == sections'[fresh].atoms
            bonds  == sections'[fresh].bonds
            n      == Len(atoms)
            bonded == {{bonds[b].atom1.at, bonds[b].atom2.at} : b \in 1..Len(bonds)}
            near   == {{pr[1], pr[2]} : pr \in
                         {qr \in (1..n) \X (1..n) :
                             /\ qr[1] < qr[2]
                             /\ RLeq(DistanceToSquared(atoms[qr[1]].position,
                                                       atoms[qr[2]].position),
                                     RInt(distLim * distLim))}}
        IN  IF ret'.automatic
            THEN /\ \A b \in 1..Len(bonds) :
                       bonds[b].atom1.sec = fresh /\ bonds[b].atom2.sec = fresh
                 /\ \A pair \in bonded : Cardinality(pair) = 2
                 /\ Cardinality(bonded) = Len(bonds)
                 /\ bonded = near
            ELSE bonds = <<>>
    ]_vars

\* C16 witness: createDiamond(2, true) has just made a section of 64 atoms
\* and 85 bonds
C16_Witness ==
    /\ ret.op = "createDiamond"
    /\ ret.order = 2
    /\ ret.automatic
    /\ Len(sections[Len(sections)].atoms) = 64
    /\ Len(sections[Len(sections)].bonds) = 85

\* C17: every bond that createDiamond puts into the section it makes has
\* order 1 and has its automatic flag set.
C17_DiamondBondsAutomatic ==
    [][IsCreateDiamondStep =>
        LET bonds == sections'[Len(sections) + 1].bonds
        IN  \A b \in 1..Len(bonds) : bonds[b].order = 1 /\ bonds[b].automatic
    ]_vars

\* a step that is a call of transformAtoms
IsTransformStep == calls' = calls + 1 /\ ret'.op = "transformAtoms"

\* the sum of the vectors of a sequence, from place i on
RECURSIVE SumOfVectors(_, _)
SumOfVectors(vectors, i) ==
    IF i > Len(vectors) THEN Vec(0, 0, 0)
    ELSE VAdd(vectors[i], SumOfVectors(vectors, i + 1))

\* the model that transformAtoms(atoms, translation, quaternion, origin) is
\* said to leave: every listed atom at R(p + translation - o) + o, where o is
\* the origin given or else the mean of the listed atoms' translated
\* positions, and everything else as it was
TransformedAsStated(secs, atoms, translation, quaternion, origin) ==
    LET t      == IF translation = NoVector THEN Vec(0, 0, 0) ELSE translation
        moved  == [i \in 1..Len(atoms) |-> VAdd(AtomAt(secs, atoms[i]).position, t)]
        o      == IF origin # NoVector THEN origin
                  ELSE VDivScalar(SumOfVectors(moved, 1), Len(atoms))
        listed(s, k) == \E i \in 1..Len(atoms) : atoms[i].sec = s /\ atoms[i].at = k
        stated(p) == IF quaternion = Undefined THEN VAdd(p, t)
                     ELSE VAdd(ApplyQuaternion(VSub(VAdd(p, t), o), quaternion), o)
    IN  [s \in DOMAIN secs |->
            [secs[s] EXCEPT !.atoms =
                [k \in DOMAIN secs[s].atoms |->
                    IF listed(s, k)
                    THEN [secs[s].atoms[k] EXCEPT !.position = stated(@)]
                    ELSE secs[s].atoms[k]]]]

\* the list names no atom twice
NamesEachAtomOnce(atoms) ==
    \A i, j \in 1..Len(atoms) : i # j => atoms[i] # atoms[j]

-----------------------------------------------------------------------------
(* Properties of exportGLTF (SpecGLTF).                                    *)

\* an object and everything below it in the scene graph
RECURSIVE Subtree(_)
Subtree(id) ==
    {id} \cup UNION {Subtree(heap[id].children[i]) : i \in 1..Len(heap[id].children)}

\* C19: exportGLTF hands the exporter the de-instanced clone, none of whose
\* objects is an object of the live scene. When the exporter succeeds exactly
\* one file is saved: name.glb holding the byte buffer if the result is one,
\* else name.gltf holding the result as text indented by 2. When it fails one
\* line is logged, no file is saved, and both the call and the callback
\* return normally.
C19_ExportGLTF ==
    gltf.pc # "idle" =>
        /\ gltf.input = result
        /\ gltf.input \in NewObjects
        /\ Subtree(gltf.input) \cap live = {}
        /\ heap[gltf.input].from = gltf.scene
        /\ LET res == [type |-> gltf.outcome, encodes |-> gltf.input]
           IN  CASE gltf.outcome = "none" ->
                        gltf.pc = "parsing" /\ gltf.files = <<>> /\ gltf.log = <<>>
                 [] gltf.outcome = "ArrayBuffer" ->
                        /\ gltf.pc = "done"
                        /\ gltf.log = <<>>
                        /\ Len(gltf.files) = 1
                        /\ gltf.files[1].filename = gltf.name \o ".glb"
                        /\ gltf.files[1].blob.parts = res
                 [] gltf.outcome = "object" ->
                        /\ gltf.pc = "done"
                        /\ gltf.log = <<>>
                        /\ Len(gltf.files) = 1
                        /\ gltf.files[1].filename = gltf.name \o ".gltf"
                        /\ gltf.files[1].blob.parts = [text |-> "JSON", of |-> res, indent |-> 2]
                 [] gltf.outcome = "error" ->
                        /\ gltf.pc = "done"
                        /\ gltf.files = <<>>
                        /\ Len(gltf.log) = 1

\* C19 witness: the exporter has failed on a binary export of a scene that
\* holds instanced primitives
C19_Witness ==
    /\ gltf.pc = "done"
    /\ gltf.outcome = "error"
    /\ gltf.binary
    /\ gltf.scene = 1
    /\ Deinstanced # {}

-----------------------------------------------------------------------------
(* Properties of the orbiting camera path (SpecOrbit).                     *)

\* C20: the orbiting camera path is closed: the positions it returns at
\* progress p and at progress q are equal whenever (p - q) * nOrbits is an
\* integer (so path(0) = path(1) for one orbit, path(0.5) = path(0) for two).
C20_OrbitClosed ==
    \A a, b \in orbit.seen :
        RMul(RSub(a.progress, b.progress), RInt(orbit.nOrbits))[2] = 1 =>
            a.position = b.position

-----------------------------------------------------------------------------
(* Properties over several instanced primitives and over repeated video    *)
(* runs (SpecDeinst, SpecExport).                                          *)

\* C21: every mesh that deinstantiate puts into the group made for an
\* instanced primitive P has a material cloned from P's own material, also
\* when a primitive visited earlier has an instance of the same colour. (The
\* colour applied is compared by its 24-bit key, which is what the material
\* cache distinguishes.)
C21_MaterialFromOwnPrimitive ==
    result # NoObject =>
        \A id \in NewObjects :
            (heap[id].type = "Mesh" /\ heap[id].instance > 0 /\ heap[id].parent # NoObject) =>
                LET p == heap[id].from
                    m == materials[heap[id].material]
                IN  /\ m.cloneOf = heap[p].material
                    /\ GetHex(m.color) = GetHex(heap[p].instances[heap[id].instance].color)

\* C22: the call that starts a video run submits frame 0 and, through its own
\* call of step, frame 1, with the stop flag still clear; so a run is
\* finalized only by a later tick, with at least two frames submitted.
C22_FirstTickInsideStart ==
    /\ [][IsStartStep =>
            /\ capturer'.state = "started"
            /\ capturer'.frames = 2
            /\ capturer'.first.frame = 0
            /\ capturer'.last.frame = 1
            /\ currentFrame' = 1
            /\ ~stop'
            /\ video' = "capturing"]_vars
    /\ [][IsFinalizeStep =>
            /\ video = "capturing"
            /\ exports' = exports
            /\ currentFrame >= 1
            /\ capturer'.frames = capturer.frames
            /\ capturer.frames >= 2]_vars
    /\ [][(stop' /\ ~stop) => (capturer.frames >= 2 /\ capturer'.state = "started")]_vars

\* C22 witness: the stop button was pressed right after the start call
\* returned, and the run was finalized by the next tick with two frames
C22_Witness ==
    /\ capturer.state = "saved"
    /\ stop
    /\ run.stopAt = 1
    /\ capturer.frames = 2
    /\ capturer.last.frame = 1

\* C23: when a run that moved the camera along the orbit has finalized, a
\* click on the start button begins a run with the same camera path
\* function: the camera is placed on the orbit for frame 0 and for frame 1.
C23_RestartKeepsCameraPath ==
    [][(ClickStart /\ capturer.state = "saved" /\ run.path = "orbit") =>
            /\ run'.path = "orbit"
            /\ capturer'.first.camera = Rat(0, 1)
            /\ capturer'.last.camera = Rat(1, lastFrame)
    ]_vars
=============================================================================
